---- MODULE Spec2Model ----
(***************************************************************************)
(* grunt-cmiscopy: the FileIO object (uploadFile / downloadFile) together  *)
(* with the VersionRegistry it consults, the CmisFileProperties descriptor *)
(* and the BufferWriter used to tee the remote stream.                     *)
(*                                                                         *)
(* Every asynchronous completion of the source (fs.readFile callback,      *)
(* http.get response, stream 'data' / 'end' / 'error' events, writer       *)
(* 'finish', CmisJS .ok / .notOk / .error) is one action.  Several file    *)
(* operations may be in flight at once; they share versionRegistry, the    *)
(* local directory and the remote repository.                              *)
(***************************************************************************)
EXTENDS Integers, Sequences, FiniteSets, TLC

(* ------------------------------ bounds -------------------------------- *)
\* slots for file operations (calls whose callback the caller still awaits)
NOps == 2
\* length of a non-empty file, in bytes; its bytes are 1 .. MaxLen
MaxLen == 2
\* version labels are 1 .. MaxVer; a remote write advances the label by one
MaxVer == 2

Ops == 1..NOps
Nodes == {"n1", "n2"}
Labels == 1..MaxVer

\* http status the code treats as success (response.statusCode === 200)
StatusOK == 200
Statuses == {StatusOK, 404}

\* the documents of the test repository: the empty file, the file of the
\* bytes 1 .. MaxLen and the file of the same bytes in reverse order (two
\* files differ in length, or only in the order of their bytes)
Ascending == [j \in 1..MaxLen |-> j]
Descending == [j \in 1..MaxLen |-> MaxLen + 1 - j]
Files == {<< >>, Ascending, Descending}

\* fs.readFile fails at this path (no such file)
Absent == << 0 >>
\* the registry has no key for the node
NoEntry == 0

(* --------------------------- pure functions --------------------------- *)

\* crypto hash, fed incrementally: hash.update(chunk) folds the bytes of the
\* chunk into the running state.  The digest is collision free on the bounded
\* domain (the state is the base-(MaxLen+1) numeral of the bytes fed so far,
\* with a leading 1 so that lengths are told apart).
HashBase == MaxLen + 1
HashInit == 1

RECURSIVE HashUpdate(_, _)
HashUpdate(h, chunk) ==
    IF chunk = << >> THEN h
    ELSE HashUpdate(h * HashBase + Head(chunk), Tail(chunk))

\* hash.end(); hash.read() with 'hex' encoding: the digest as a sequence of
\* hexadecimal digits, least significant first
RECURSIVE HexDigits(_)
HexDigits(h) == IF h < 16 THEN << h >> ELSE << h % 16 >> \o HexDigits(h \div 16)

HashRead(h) == HexDigits(h)

\* getCheckSum of a stream that delivers exactly `bytes` and then ends
CheckSumOf(bytes) == HashRead(HashUpdate(HashInit, bytes))

\* _write that puts the chunk in front of the buffer (mutant)
BufferWriterWrite_Prepend(buffer, chunk) == chunk \o buffer

\* BufferWriter.prototype._write
BufferWriterWrite(buffer, chunk) == buffer \o chunk

\* VersionRegistry.hasVersion / setVersion
hasVersion(reg, nodeId, version) == reg[nodeId] # NoEntry /\ reg[nodeId] = version

setVersion(reg, nodeId, version) == [reg EXCEPT ![nodeId] = version]

(* ------------------------------- state -------------------------------- *)
VARIABLES
    versionRegistry,   \* nodeId -> last synced version label, or NoEntry
    localFiles,        \* nodeId -> bytes of localDir/<name>, or Absent
    remoteContent,     \* nodeId -> bytes of the content stream in the repository
    remoteVersion,     \* nodeId -> cmis:versionLabel of the object in the repository
    ops,               \* slot -> the file operation running in it
    concurrency,       \* how many file operations the caller keeps in flight
    crashed,           \* an 'error' event without listener was thrown
    task               \* the cmiscopy task that calls the file operations

vars == << versionRegistry, localFiles, remoteContent, remoteVersion, ops, concurrency, crashed, task >>

world == << localFiles, remoteContent, remoteVersion >>

caller == << concurrency, task >>

\* cmis:objectId and cmis:contentStreamMimeType of the node's descriptor
\* (getObjectId, getMimeType)
ObjectIdOf(nodeId) == nodeId \o ";content"
MimeTypeOf(nodeId) == IF nodeId = "n1" THEN "text/html" ELSE "text/css"

\* no setContentStream request was made
NoRequest == [ objectId |-> "", data |-> << >>, overwriteFlag |-> FALSE, mimeType |-> "" ]

\* the file operations are called without a task
NoTask == [ state |-> "none", arg |-> "", action |-> "", error |-> "" ]

\* values of the callback's first argument; "uncalled" before the callback
NoError == "null"
Errors == {"transport", "error streaming file", "error downloading file", "error writing file"}

\* the locals of a call that did not start yet, or whose closures are gone
Idle ==
    [ kind |-> "none", nodeId |-> "n1", version |-> 1, isModernCmis |-> TRUE,
      pc |-> "idle",
      data |-> << >>,            \* fs.readFile's data
      body |-> << >>,            \* bytes the response stream has not emitted yet
      received |-> << >>,        \* bytes the response stream has emitted
      hash |-> HashInit,         \* running hash of getCheckSum(remoteDataStream)
      remoteCheckSum |-> << >>,
      buffer |-> << >>,          \* bufferWriter.buffer
      calls |-> 0,               \* invocations of callback
      err |-> "uncalled",        \* argument of the last invocation
      outcome |-> "none",        \* the branch in which the operation ended
      request |-> NoRequest,     \* arguments of cmisSession.setContentStream
      requestError |-> FALSE,    \* http.get's request emitted 'error' after 'response'
      remoteWrites |-> 0,        \* invocations of cmisSession.setContentStream
      localWrites |-> 0,         \* writes to the local file (fs.writeFile, writer)
      versionsSet |-> 0 ]        \* invocations of versionRegistry.setVersion

\* the call is over: callback(e); the descriptor and the closures' locals are
\* dropped
Callback(o, e, how) ==
    [ o EXCEPT !.pc = "returned", !.calls = @ + 1, !.err = e, !.outcome = how,
               !.version = Idle.version, !.isModernCmis = Idle.isModernCmis,
               !.data = << >>, !.body = << >>, !.received = << >>,
               !.hash = HashInit, !.remoteCheckSum = << >>, !.buffer = << >>,
               !.request = NoRequest, !.requestError = FALSE ]

\* nothing is pending for the operation and no handler called the callback
Lost(o, how) ==
    [ o EXCEPT !.pc = "lost", !.outcome = how,
               !.version = Idle.version, !.isModernCmis = Idle.isModernCmis,
               !.data = << >>, !.body = << >>, !.received = << >>,
               !.hash = HashInit, !.remoteCheckSum = << >>, !.buffer = << >>,
               !.request = NoRequest, !.requestError = FALSE ]

InFlight(o) == o.pc \notin {"idle", "returned"}

\* the caller starts a call in the first free slot, keeps at most
\* `concurrency` calls in flight, and never two for the same file; a task run
\* calls each file once and keeps every call's slot
FreeSlot(i) ==
    IF task.state = "none"
    THEN /\ ~ InFlight(ops[i])
         /\ \A j \in Ops : j < i => InFlight(ops[j])
    ELSE /\ ops[i].pc = "idle"
         /\ \A j \in Ops : j < i => ops[j].pc # "idle"

MayCall(i, nodeId) ==
    /\ ~ crashed
    /\ FreeSlot(i)
    /\ Cardinality({j \in Ops : InFlight(ops[j])}) < concurrency
    /\ \A j \in Ops : InFlight(ops[j]) => ops[j].nodeId # nodeId

Init ==
    /\ versionRegistry \in [Nodes -> {NoEntry} \cup Labels]
    /\ localFiles \in [Nodes -> Files \cup {Absent}]
    /\ remoteContent \in [Nodes -> Files]
    /\ remoteVersion = [n \in Nodes |-> 1]
    /\ ops = [i \in Ops |-> Idle]
    /\ concurrency = 1
    /\ crashed = FALSE
    /\ task = NoTask

(* ------------------------------ upload -------------------------------- *)

\* doUpload: cmisSession.setContentStream(objectId, data, true, mimeType)
doUpload(o) ==
    [ o EXCEPT !.pc = "setContentStream", !.remoteWrites = @ + 1,
               !.request = [ objectId |-> ObjectIdOf(o.nodeId), data |-> o.data,
                             overwriteFlag |-> TRUE, mimeType |-> MimeTypeOf(o.nodeId) ],
               !.body = << >>, !.received = << >>, !.hash = HashInit,
               !.remoteCheckSum = << >> ]

\* uploadFile without the version check (mutant)
UploadFile_NoGate(i, nodeId, version, modern) ==
    /\ MayCall(i, nodeId)
    /\ remoteVersion[nodeId] < MaxVer
    /\ ops' = [ ops EXCEPT ![i] =
            [ Idle EXCEPT !.kind = "upload", !.nodeId = nodeId, !.version = version,
                          !.isModernCmis = modern, !.pc = "readFile" ] ]
    /\ UNCHANGED << versionRegistry, world, caller, crashed >>

\* uploadFile(localDir, cmisFileProperties, callback); calls are made while
\* the repository's label is below MaxVer, and after that with the
\* repository's descriptor as long as the version check refuses it
UploadFile(i, nodeId, version, modern) ==
    /\ MayCall(i, nodeId)
    /\ \/ remoteVersion[nodeId] < MaxVer
       \/ /\ version = remoteVersion[nodeId]
          /\ ~ hasVersion(versionRegistry, nodeId, version)
    /\ LET o == [ Idle EXCEPT !.kind = "upload", !.nodeId = nodeId,
                              !.version = version, !.isModernCmis = modern ]
       IN  ops' = [ ops EXCEPT ![i] =
                IF ~ hasVersion(versionRegistry, nodeId, version)
                THEN Callback(o, NoError, "out of sync")
                ELSE [ o EXCEPT !.pc = "readFile" ] ]
    /\ UNCHANGED << versionRegistry, world, caller, crashed >>

\* fs.readFile(filepath, function(err, data) ...) of uploadFile
UploadReadFile(i) ==
    LET o == ops[i] IN
    /\ ~ crashed
    /\ o.kind = "upload" /\ o.pc = "readFile"
    /\ ops' = [ ops EXCEPT ![i] =
            IF localFiles[o.nodeId] = Absent
            THEN Callback(o, NoError, "unable to read file")
            ELSE [ o EXCEPT !.pc = "getRemoteData", !.data = localFiles[o.nodeId] ] ]
    /\ UNCHANGED << versionRegistry, world, caller, crashed >>

\* getRemoteData(objectId, function(err, response) ...) of uploadFile; err is
\* set by http.get's 'error' event, statusCode is response.statusCode otherwise
UploadGetRemoteData(i, err, statusCode) ==
    LET o == ops[i] IN
    /\ ~ crashed
    /\ o.kind = "upload" /\ o.pc = "getRemoteData"
    /\ ops' = [ ops EXCEPT ![i] =
            IF ~ err /\ statusCode = StatusOK
            THEN [ o EXCEPT !.pc = "remoteCheckSum", !.body = remoteContent[o.nodeId],
                            !.hash = HashInit ]
            ELSE doUpload(o) ]
    /\ UNCHANGED << versionRegistry, world, caller, crashed >>

\* a setContentStream request that is made again when it failed (mutant)
SetContentStreamDone_Retry(i, result) ==
    LET o == ops[i] IN
    /\ ~ crashed
    /\ o.pc = "setContentStream"
    /\ IF result = "ok"
       THEN /\ remoteContent' = [ remoteContent EXCEPT ![o.nodeId] = o.request.data ]
            /\ remoteVersion' = [ remoteVersion EXCEPT ![o.nodeId] = @ + 1 ]
            /\ ops' = [ ops EXCEPT ![i] =
                    IF o.isModernCmis
                    THEN [ o EXCEPT !.pc = "getObject" ]
                    ELSE Lost(o, "getLatestVersionLegacy") ]
       ELSE /\ UNCHANGED << remoteContent, remoteVersion >>
            /\ ops' = [ ops EXCEPT ![i] =
                    IF o.remoteWrites < 2
                    THEN [ o EXCEPT !.remoteWrites = @ + 1 ]
                    ELSE Lost(o, "setContentStream " \o result) ]
    /\ UNCHANGED << versionRegistry, localFiles, caller, crashed >>

\* .ok / .notOk / .error of the setContentStream request; only .ok has a handler
SetContentStreamDone(i, result) ==
    LET o == ops[i] IN
    /\ ~ crashed
    /\ o.pc = "setContentStream"
    /\ IF result = "ok"
       THEN /\ remoteContent' = [ remoteContent EXCEPT ![o.nodeId] = o.request.data ]
            /\ remoteVersion' = [ remoteVersion EXCEPT ![o.nodeId] = @ + 1 ]
            /\ ops' = [ ops EXCEPT ![i] =
                    IF o.isModernCmis
                    THEN [ o EXCEPT !.pc = "getObject" ]
                    ELSE Lost(o, "getLatestVersionLegacy") ]
       ELSE /\ UNCHANGED << remoteContent, remoteVersion >>
            /\ ops' = [ ops EXCEPT ![i] = Lost(o, "setContentStream " \o result) ]
    /\ UNCHANGED << versionRegistry, localFiles, caller, crashed >>

\* doUpload's getLatestVersion callback that records the repository's label
\* although the fetch failed (mutant)
GetObjectDone_Refreshes(i, result) ==
    LET o == ops[i] IN
    /\ ~ crashed
    /\ o.pc = "getObject"
    /\ versionRegistry' = setVersion(versionRegistry, o.nodeId, remoteVersion[o.nodeId])
    /\ ops' = [ ops EXCEPT ![i] =
            IF result = "error"
            THEN Lost(o, "getObject error")
            ELSE Callback([ o EXCEPT !.versionsSet = @ + 1 ], NoError,
                          IF result = "ok" THEN "uploaded"
                          ELSE "Could not refresh file version") ]
    /\ UNCHANGED << world, caller, crashed >>

\* getLatestVersionModern: .ok / .notOk / .error of cmisSession.getObject, and
\* the function(err, newVersion) that doUpload passes to getLatestVersion
GetObjectDone(i, result) ==
    LET o == ops[i] IN
    /\ ~ crashed
    /\ o.pc = "getObject"
    /\ CASE result = "ok" ->
              /\ versionRegistry' = setVersion(versionRegistry, o.nodeId, remoteVersion[o.nodeId])
              /\ ops' = [ ops EXCEPT ![i] =
                      Callback([ o EXCEPT !.versionsSet = @ + 1 ], NoError, "uploaded") ]
         [] result = "notOk" ->
              /\ ops' = [ ops EXCEPT ![i] =
                      Callback(o, NoError, "Could not refresh file version") ]
              /\ UNCHANGED versionRegistry
         [] OTHER ->
              /\ ops' = [ ops EXCEPT ![i] = Lost(o, "getObject error") ]
              /\ UNCHANGED versionRegistry
    /\ UNCHANGED << world, caller, crashed >>

(* ------------------------ compare / getCheckSum ------------------------ *)

\* 'data' of the response stream while getCheckSum(remoteDataStream) reads it:
\* the next k bytes go to the hash and, in downloadFile, to bufferWriter too
RemoteStreamData(i, k) ==
    LET o == ops[i]
        chunk == SubSeq(o.body, 1, k)
    IN
    /\ ~ crashed
    /\ o.pc = "remoteCheckSum"
    /\ k \in 1..Len(o.body)
    /\ ops' = [ ops EXCEPT ![i] =
            [ o EXCEPT !.body = SubSeq(o.body, k + 1, Len(o.body)),
                       !.received = @ \o chunk,
                       !.hash = HashUpdate(@, chunk),
                       !.buffer = IF o.kind = "download"
                                  THEN BufferWriterWrite(@, chunk) ELSE @ ] ]
    /\ UNCHANGED << versionRegistry, world, caller, crashed >>

\* 'end' of the response stream in getCheckSum: remoteCheckSum is read, and
\* compare starts getCheckSum(localDataStream)
RemoteStreamEnd(i) ==
    LET o == ops[i] IN
    /\ ~ crashed
    /\ o.pc = "remoteCheckSum"
    /\ o.body = << >>
    /\ ops' = [ ops EXCEPT ![i] =
            [ o EXCEPT !.pc = "localCheckSum", !.remoteCheckSum = HashRead(o.hash) ] ]
    /\ UNCHANGED << versionRegistry, world, caller, crashed >>

\* 'error' of the response stream that uploadFile reports too (mutant)
RemoteStreamError_Reports(i) ==
    LET o == ops[i] IN
    /\ ~ crashed
    /\ o.pc = "remoteCheckSum"
    /\ ops' = [ ops EXCEPT ![i] =
            Callback(o, "error streaming file", "error streaming file") ]
    /\ UNCHANGED << versionRegistry, world, caller, crashed >>

\* 'error' of the response stream in getCheckSum: compare's callback gets the
\* error; uploadFile uploads anyway, downloadFile reports it
RemoteStreamError(i) ==
    LET o == ops[i] IN
    /\ ~ crashed
    /\ o.pc = "remoteCheckSum"
    /\ ops' = [ ops EXCEPT ![i] =
            IF o.kind = "upload"
            THEN doUpload(o)
            ELSE Callback(o, "error streaming file", "error streaming file") ]
    /\ UNCHANGED << versionRegistry, world, caller, crashed >>

\* uploadFile's compare callback with the test on isSame inverted (mutant)
LocalStreamEnd_Inverted(i) ==
    LET o == ops[i]
        isSame == CheckSumOf(o.data) = o.remoteCheckSum
    IN
    /\ ~ crashed
    /\ o.pc = "localCheckSum"
    /\ IF o.kind = "upload"
       THEN /\ ops' = [ ops EXCEPT ![i] =
                    IF isSame THEN doUpload(o) ELSE Callback(o, NoError, "in sync") ]
            /\ UNCHANGED versionRegistry
       ELSE IF isSame
            THEN /\ versionRegistry' = setVersion(versionRegistry, o.nodeId, o.version)
                 /\ ops' = [ ops EXCEPT ![i] =
                         Callback([ o EXCEPT !.versionsSet = @ + 1 ], NoError, "unchanged") ]
            ELSE /\ ops' = [ ops EXCEPT ![i] =
                         [ o EXCEPT !.pc = "writeFile", !.localWrites = @ + 1 ] ]
                 /\ UNCHANGED versionRegistry
    /\ UNCHANGED << world, caller, crashed >>

\* downloadFile's compare callback without setVersion for equal content (mutant)
LocalStreamEnd_NoSetVersion(i) ==
    LET o == ops[i]
        isSame == CheckSumOf(o.data) = o.remoteCheckSum
    IN
    /\ ~ crashed
    /\ o.pc = "localCheckSum"
    /\ IF o.kind = "upload"
       THEN ops' = [ ops EXCEPT ![i] =
                    IF isSame THEN Callback(o, NoError, "in sync") ELSE doUpload(o) ]
       ELSE ops' = [ ops EXCEPT ![i] =
                    IF isSame THEN Callback(o, NoError, "unchanged")
                    ELSE [ o EXCEPT !.pc = "writeFile", !.localWrites = @ + 1 ] ]
    /\ UNCHANGED << versionRegistry, world, caller, crashed >>

\* 'end' of new BufferReader(data) in getCheckSum: compare calls back with
\* localCheckSum === remoteCheckSum
LocalStreamEnd(i) ==
    LET o == ops[i]
        isSame == CheckSumOf(o.data) = o.remoteCheckSum
    IN
    /\ ~ crashed
    /\ o.pc = "localCheckSum"
    /\ IF o.kind = "upload"
       THEN /\ ops' = [ ops EXCEPT ![i] =
                    IF isSame THEN Callback(o, NoError, "in sync") ELSE doUpload(o) ]
            /\ UNCHANGED versionRegistry
       ELSE IF isSame
            THEN /\ versionRegistry' = setVersion(versionRegistry, o.nodeId, o.version)
                 /\ ops' = [ ops EXCEPT ![i] =
                         Callback([ o EXCEPT !.versionsSet = @ + 1 ], NoError, "unchanged") ]
            ELSE /\ ops' = [ ops EXCEPT ![i] =
                         [ o EXCEPT !.pc = "writeFile", !.localWrites = @ + 1 ] ]
                 /\ UNCHANGED versionRegistry
    /\ UNCHANGED << world, caller, crashed >>

(* ----------------------------- download ------------------------------- *)

\* downloadFile(localDir, cmisFileProperties, callback); the descriptor's
\* dialect is not kept, since downloadFile never calls getLatestVersion (so
\* the specifications call it with one dialect only)
DownloadFile(i, nodeId, version, modern) ==
    /\ MayCall(i, nodeId)
    /\ ops' = [ ops EXCEPT ![i] =
            [ Idle EXCEPT !.kind = "download", !.nodeId = nodeId, !.version = version,
                          !.pc = "getRemoteData" ] ]
    /\ UNCHANGED << versionRegistry, world, caller, crashed >>

\* downloadFile's fetch callback reporting a non-success status as error (mutant)
DownloadGetRemoteData_StatusIsError(i, err, statusCode) ==
    LET o == ops[i] IN
    /\ ~ crashed
    /\ o.kind = "download" /\ o.pc = "getRemoteData"
    /\ ops' = [ ops EXCEPT ![i] =
            IF ~ err /\ statusCode = StatusOK
            THEN [ o EXCEPT !.pc = "readFile", !.body = remoteContent[o.nodeId] ]
            ELSE Callback(o, "transport", "transport") ]
    /\ UNCHANGED << versionRegistry, world, caller, crashed >>

\* getRemoteData(objectId, function(err, response) ...) of downloadFile
DownloadGetRemoteData(i, err, statusCode) ==
    LET o == ops[i] IN
    /\ ~ crashed
    /\ o.kind = "download" /\ o.pc = "getRemoteData"
    /\ ops' = [ ops EXCEPT ![i] =
            CASE err -> Callback(o, "transport", "transport")
              [] statusCode = StatusOK ->
                    [ o EXCEPT !.pc = "readFile", !.body = remoteContent[o.nodeId] ]
              [] OTHER -> Callback(o, NoError, "Download failed") ]
    /\ UNCHANGED << versionRegistry, world, caller, crashed >>

\* 'error' of http.get's request after its 'response' event (the connection
\* fails while the body is received): getRemoteData invokes downloadFile's
\* fetch callback a second time, which reports the error to the completion
\* callback; the handlers on the response stay registered, no more bytes
\* arrive, and the response goes on to emit 'end' or 'error'.  (In uploadFile
\* the same event starts doUpload beside the running compare; that is not
\* modelled.)
RequestErrorLate(i) ==
    LET o == ops[i] IN
    /\ ~ crashed
    /\ o.kind = "download" /\ o.pc \in {"readFile", "remoteCheckSum", "pipe"}
    /\ ~ o.requestError
    /\ ops' = [ ops EXCEPT ![i] =
            [ o EXCEPT !.requestError = TRUE, !.body = << >>,
                       !.calls = @ + 1, !.err = "transport" ] ]
    /\ UNCHANGED << versionRegistry, world, caller, crashed >>

\* fs.readFile's callback that writes an existing file without comparing (mutant)
DownloadReadFile_WritesFirst(i) ==
    LET o == ops[i] IN
    /\ ~ crashed
    /\ o.kind = "download" /\ o.pc = "readFile"
    /\ ops' = [ ops EXCEPT ![i] =
            IF localFiles[o.nodeId] = Absent
            THEN [ o EXCEPT !.pc = "pipe", !.localWrites = @ + 1 ]
            ELSE [ o EXCEPT !.pc = "writeFile", !.data = localFiles[o.nodeId],
                            !.body = << >>, !.received = o.body, !.buffer = o.body,
                            !.localWrites = @ + 1 ] ]
    /\ UNCHANGED << versionRegistry, world, caller, crashed >>

\* fs.readFile(filePath, function(err, data) ...) of downloadFile: without a
\* local file the response is piped to fs.createWriteStream(filePath),
\* otherwise to a BufferWriter and to compare
DownloadReadFile(i) ==
    LET o == ops[i] IN
    /\ ~ crashed
    /\ o.kind = "download" /\ o.pc = "readFile"
    /\ ops' = [ ops EXCEPT ![i] =
            IF localFiles[o.nodeId] = Absent
            THEN [ o EXCEPT !.pc = "pipe", !.localWrites = @ + 1 ]
            ELSE [ o EXCEPT !.pc = "remoteCheckSum", !.data = localFiles[o.nodeId],
                            !.buffer = << >>, !.hash = HashInit ] ]
    /\ UNCHANGED << versionRegistry, world, caller, crashed >>

\* what the file holds once the writer wrote chunk to it
Written(file, chunk) == IF file = Absent THEN chunk ELSE file \o chunk

\* 'data' of the response that never reaches the file (mutant)
PipeData_Lossy(i, k) ==
    LET o == ops[i]
        chunk == SubSeq(o.body, 1, k)
    IN
    /\ ~ crashed
    /\ o.pc = "pipe"
    /\ k \in 1..Len(o.body)
    /\ ops' = [ ops EXCEPT ![i] =
            [ o EXCEPT !.body = SubSeq(o.body, k + 1, Len(o.body)),
                       !.received = @ \o chunk ] ]
    /\ UNCHANGED << versionRegistry, world, caller, crashed >>

\* 'data' of the response piped to the file writer
PipeData(i, k) ==
    LET o == ops[i]
        chunk == SubSeq(o.body, 1, k)
    IN
    /\ ~ crashed
    /\ o.pc = "pipe"
    /\ k \in 1..Len(o.body)
    /\ localFiles' = [ localFiles EXCEPT ![o.nodeId] = Written(@, chunk) ]
    /\ ops' = [ ops EXCEPT ![i] =
            [ o EXCEPT !.body = SubSeq(o.body, k + 1, Len(o.body)),
                       !.received = @ \o chunk ] ]
    /\ UNCHANGED << versionRegistry, remoteContent, remoteVersion, caller, crashed >>

\* response.on('end'): writer.end(function() ...)
PipeEnd(i) ==
    LET o == ops[i] IN
    /\ ~ crashed
    /\ o.pc = "pipe"
    /\ o.body = << >>
    /\ ops' = [ ops EXCEPT ![i] = [ o EXCEPT !.pc = "writer.end" ] ]
    /\ UNCHANGED << versionRegistry, world, caller, crashed >>

\* response.on('error') that records the descriptor's version (mutant)
PipeError_SetsVersion(i) ==
    LET o == ops[i] IN
    /\ ~ crashed
    /\ o.pc = "pipe"
    /\ versionRegistry' = setVersion(versionRegistry, o.nodeId, o.version)
    /\ ops' = [ ops EXCEPT ![i] =
            Callback(o, "error downloading file", "error downloading file") ]
    /\ UNCHANGED << world, caller, crashed >>

\* response.on('error') while piping to the file
PipeError(i) ==
    LET o == ops[i] IN
    /\ ~ crashed
    /\ o.pc = "pipe"
    /\ ops' = [ ops EXCEPT ![i] =
            Callback(o, "error downloading file", "error downloading file") ]
    /\ UNCHANGED << versionRegistry, world, caller, crashed >>

\* writer.end's callback that records the version under another node's key (mutant)
WriterFinish_WrongKey(i) ==
    LET o == ops[i]
        other == CHOOSE n \in Nodes : n # o.nodeId
    IN
    /\ ~ crashed
    /\ o.pc = "writer.end"
    /\ localFiles' = [ localFiles EXCEPT ![o.nodeId] = Written(@, << >>) ]
    /\ versionRegistry' = setVersion(versionRegistry, other, o.version)
    /\ ops' = [ ops EXCEPT ![i] =
            Callback([ o EXCEPT !.versionsSet = @ + 1 ], NoError, "downloaded new file") ]
    /\ UNCHANGED << remoteContent, remoteVersion, caller, crashed >>

\* the function passed to writer.end: the file is written and closed
WriterFinish(i) ==
    LET o == ops[i] IN
    /\ ~ crashed
    /\ o.pc = "writer.end"
    /\ localFiles' = [ localFiles EXCEPT ![o.nodeId] = Written(@, << >>) ]
    /\ versionRegistry' = setVersion(versionRegistry, o.nodeId, o.version)
    /\ ops' = [ ops EXCEPT ![i] =
            Callback([ o EXCEPT !.versionsSet = @ + 1 ], NoError, "downloaded new file") ]
    /\ UNCHANGED << remoteContent, remoteVersion, caller, crashed >>

\* 'error' of the file writer (open or write failed): the writer has no
\* 'error' listener, so the event is thrown as an uncaught exception
WriterError(i) ==
    LET o == ops[i] IN
    /\ ~ crashed
    /\ o.pc \in {"pipe", "writer.end"}
    /\ crashed' = TRUE
    /\ ops' = [ ops EXCEPT ![i] = Lost(o, "uncaught writer error") ]
    /\ UNCHANGED << versionRegistry, world, caller >>

\* fs.writeFile's callback that records the version after a failed write too (mutant)
WriteFileDone_NoReturn(i, ok) ==
    LET o == ops[i] IN
    /\ ~ crashed
    /\ o.pc = "writeFile"
    /\ versionRegistry' = setVersion(versionRegistry, o.nodeId, o.version)
    /\ IF ok
       THEN /\ localFiles' = [ localFiles EXCEPT ![o.nodeId] = o.buffer ]
            /\ ops' = [ ops EXCEPT ![i] =
                    Callback([ o EXCEPT !.versionsSet = @ + 1 ], NoError, "downloaded") ]
       ELSE /\ ops' = [ ops EXCEPT ![i] =
                    Callback([ o EXCEPT !.versionsSet = @ + 1 ],
                             "error writing file", "error writing file") ]
            /\ UNCHANGED localFiles
    /\ UNCHANGED << remoteContent, remoteVersion, caller, crashed >>

\* fs.writeFile(filePath, bufferWriter.buffer, function(err) ...)
WriteFileDone(i, ok) ==
    LET o == ops[i] IN
    /\ ~ crashed
    /\ o.pc = "writeFile"
    /\ IF ok
       THEN /\ localFiles' = [ localFiles EXCEPT ![o.nodeId] = o.buffer ]
            /\ versionRegistry' = setVersion(versionRegistry, o.nodeId, o.version)
            /\ ops' = [ ops EXCEPT ![i] =
                    Callback([ o EXCEPT !.versionsSet = @ + 1 ], NoError, "downloaded") ]
       ELSE /\ ops' = [ ops EXCEPT ![i] =
                    Callback(o, "error writing file", "error writing file") ]
            /\ UNCHANGED << versionRegistry, localFiles >>
    /\ UNCHANGED << remoteContent, remoteVersion, caller, crashed >>

(* --------------------------- specification ---------------------------- *)

Results == {"ok", "notOk", "error"}

Next ==
    \E i \in Ops :
        \/ \E n \in Nodes, v \in Labels, m \in BOOLEAN : UploadFile(i, n, v, m)
        \/ \E n \in Nodes, v \in Labels : DownloadFile(i, n, v, TRUE)
        \/ UploadReadFile(i)
        \/ \E err \in BOOLEAN, st \in Statuses : UploadGetRemoteData(i, err, st)
        \/ \E r \in Results : SetContentStreamDone(i, r)
        \/ \E r \in Results : GetObjectDone(i, r)
        \/ \E k \in 1..MaxLen : RemoteStreamData(i, k)
        \/ RemoteStreamEnd(i)
        \/ RemoteStreamError(i)
        \/ LocalStreamEnd(i)
        \/ \E err \in BOOLEAN, st \in Statuses : DownloadGetRemoteData(i, err, st)
        \/ DownloadReadFile(i)
        \/ \E k \in 1..MaxLen : PipeData(i, k)
        \/ PipeEnd(i)
        \/ PipeError(i)
        \/ WriterFinish(i)
        \/ WriterError(i)
        \/ \E ok \in BOOLEAN : WriteFileDone(i, ok)

Spec == Init /\ [][Next]_vars

(* ------------------------------ the task ------------------------------ *)

\* the second command line argument of cmiscopy ("" when there is none)
Args == {"", "upload", "u", "download", "d", "foo"}

\* the action a task is created with; "" when the argument is rejected
SelectAction(arg) ==
    CASE arg = "" -> "download"
      [] arg \in {"upload", "u"} -> "upload"
      [] arg \in {"download", "d"} -> "download"
      [] OTHER -> ""

\* createTask that returns a task whatever the action is (mutant)
CreateTask_NoThrow ==
    /\ task.state = "new"
    /\ task' = [ task EXCEPT !.state = "created",
                             !.action = IF SelectAction(task.arg) # ""
                                        THEN SelectAction(task.arg) ELSE "download" ]
    /\ UNCHANGED << versionRegistry, world, ops, concurrency, crashed >>

\* createTask(options, specificPath, action) in the cmiscopy task: an invalid
\* action throws, and runTask is never reached
CreateTask ==
    /\ task.state = "new"
    /\ task' = IF SelectAction(task.arg) # ""
               THEN [ task EXCEPT !.state = "created", !.action = SelectAction(task.arg) ]
               ELSE [ task EXCEPT !.state = "failed",
                                  !.error = "Invalid action: " \o task.arg ]
    /\ UNCHANGED << versionRegistry, world, ops, concurrency, crashed >>

\* runTask calls the file operation of the task's action for a file it has
\* not called yet, with the descriptor just read from the repository
RunsFile(kind, nodeId) ==
    /\ task.state = "created" /\ task.action = kind
    /\ \A j \in Ops : ops[j].kind # "none" => ops[j].nodeId # nodeId

\* a task run: every file of the directory is in the repository at version 1
\* and the registry is from earlier runs; the task keeps all calls in flight
InitTask ==
    /\ versionRegistry \in [Nodes -> {NoEntry} \cup Labels]
    /\ localFiles \in [Nodes -> {Absent, Ascending, Descending}]
    /\ remoteContent \in [Nodes -> {Ascending, Descending}]
    /\ remoteVersion = [n \in Nodes |-> 1]
    /\ ops = [i \in Ops |-> Idle]
    /\ concurrency = NOps
    /\ crashed = FALSE
    /\ task \in {[ NoTask EXCEPT !.state = "new", !.arg = a ] : a \in Args}

NextTask ==
    \/ CreateTask
    \/ \E i \in Ops :
        \/ \E n \in Nodes, m \in BOOLEAN :
              RunsFile("upload", n) /\ UploadFile(i, n, remoteVersion[n], m)
        \/ \E n \in Nodes :
              RunsFile("download", n) /\ DownloadFile(i, n, remoteVersion[n], TRUE)
        \/ UploadReadFile(i)
        \/ \E err \in BOOLEAN, st \in Statuses : UploadGetRemoteData(i, err, st)
        \/ \E r \in Results : SetContentStreamDone(i, r)
        \/ \E r \in Results : GetObjectDone(i, r)
        \/ \E k \in 1..MaxLen : RemoteStreamData(i, k)
        \/ RemoteStreamEnd(i)
        \/ RemoteStreamError(i)
        \/ LocalStreamEnd(i)
        \/ \E err \in BOOLEAN, st \in Statuses : DownloadGetRemoteData(i, err, st)
        \/ DownloadReadFile(i)
        \/ \E k \in 1..MaxLen : PipeData(i, k)
        \/ PipeEnd(i)
        \/ PipeError(i)
        \/ WriterFinish(i)
        \/ WriterError(i)
        \/ \E ok \in BOOLEAN : WriteFileDone(i, ok)

SpecTask == InitTask /\ [][NextTask]_vars

\* the file operations when the connection of a fetch may fail after the
\* response has arrived
NextEvents ==
    \/ Next
    \/ \E i \in Ops : RequestErrorLate(i)

SpecEvents == Init /\ [][NextEvents]_vars

\* the file operations called one after the other, each with the descriptor
\* just read from the repository (its version is the repository's label)
NextFresh ==
    \E i \in Ops :
        \/ \E n \in Nodes, m \in BOOLEAN : UploadFile(i, n, remoteVersion[n], m)
        \/ \E n \in Nodes : DownloadFile(i, n, remoteVersion[n], TRUE)
        \/ UploadReadFile(i)
        \/ \E err \in BOOLEAN, st \in Statuses : UploadGetRemoteData(i, err, st)
        \/ \E r \in Results : SetContentStreamDone(i, r)
        \/ \E r \in Results : GetObjectDone(i, r)
        \/ \E k \in 1..MaxLen : RemoteStreamData(i, k)
        \/ RemoteStreamEnd(i)
        \/ RemoteStreamError(i)
        \/ LocalStreamEnd(i)
        \/ \E err \in BOOLEAN, st \in Statuses : DownloadGetRemoteData(i, err, st)
        \/ DownloadReadFile(i)
        \/ \E k \in 1..MaxLen : PipeData(i, k)
        \/ PipeEnd(i)
        \/ PipeError(i)
        \/ WriterFinish(i)
        \/ WriterError(i)
        \/ \E ok \in BOOLEAN : WriteFileDone(i, ok)

SpecFresh == Init /\ [][NextFresh]_vars

(* ------------------------------ claims -------------------------------- *)

\* the operation awaits the completion of some I/O
Pending(o) == o.pc \notin {"idle", "returned", "lost"}

\* the callback was invoked with an error
Failed(o) == o.calls > 0 /\ o.err \in Errors

\* C1: anti-clobber.  While a setContentStream request of an uploadFile is
\* outstanding, and until the operation ends, the registry holds exactly the
\* descriptor's version label for the descriptor's node; only uploadFile ever
\* issues a remote write; and an upload refused as out of sync has issued none
\* and has called back at once.
C1_AntiClobber ==
    \A i \in Ops :
        /\ ops[i].pc \in {"setContentStream", "getObject"} =>
               /\ ops[i].kind = "upload"
               /\ hasVersion(versionRegistry, ops[i].nodeId, ops[i].version)
        /\ ops[i].remoteWrites > 0 => ops[i].kind = "upload"
        /\ ops[i].outcome = "out of sync" =>
               ops[i].remoteWrites = 0 /\ ops[i].pc = "returned"

\* C1 witness: an upload for a node without registry entry was refused, and
\* no remote write was issued (scenario 4)
C1_Witness ==
    \E i \in Ops :
        /\ ops[i].kind = "upload" /\ ops[i].outcome = "out of sync"
        /\ versionRegistry[ops[i].nodeId] = NoEntry
        /\ ops[i].remoteWrites = 0 /\ ops[i].calls = 1

\* C2: the callback is always invoked.  An operation that was started and
\* awaits no I/O completion any more has invoked its callback.
C2_CallbackAlways ==
    \A i \in Ops :
        (ops[i].kind # "none" /\ ~ Pending(ops[i])) => ops[i].calls > 0

\* C3: a remote write that completed with notOk or error is surfaced as the
\* operation's error, and the operation has not updated the registry.
C3_UploadFailureSurfaced ==
    \A i \in Ops :
        ops[i].outcome \in {"setContentStream notOk", "setContentStream error"} =>
            Failed(ops[i]) /\ ops[i].versionsSet = 0

\* C3 is about this state: a remote write completed with notOk or error
C3_Case ==
    \E i \in Ops :
        ops[i].outcome \in {"setContentStream notOk", "setContentStream error"}

(* helpers of C4: the steps in which a transfer ends successfully *)

\* operation i ends in this step with callback(null)
EndsWithoutError(i) ==
    /\ Pending(ops[i])
    /\ ops'[i].pc = "returned" /\ ops'[i].err = NoError

\* a downloadFile ends successfully (the remote status was 200)
DownloadSucceeds(i) ==
    /\ ops[i].kind = "download" /\ EndsWithoutError(i)
    /\ ops'[i].outcome \in {"unchanged", "downloaded", "downloaded new file"}

\* an uploadFile that wrote to the repository ends successfully
UploadSucceeds(i) ==
    /\ ops[i].kind = "upload" /\ EndsWithoutError(i)
    /\ ops'[i].remoteWrites > 0

\* ... and its post-write version fetch succeeded too
UploadRefreshed(i) == UploadSucceeds(i) /\ ops'[i].outcome = "uploaded"

StepOf(i) == ops'[i] # ops[i]

\* C5: upload idempotence.  An uploadFile that passed the version gate, read
\* the local file and digested a remote stream of status 200, and whose local
\* bytes equal the remote bytes, ends with callback(null), zero remote writes
\* and the registry, the local file and the repository unchanged (so the next
\* call finds the same).
C5_UploadIdempotent ==
    [][ \A i \in Ops :
            ( /\ ops[i].kind = "upload" /\ ops[i].pc = "localCheckSum"
              /\ localFiles[ops[i].nodeId] = remoteContent[ops[i].nodeId]
              /\ StepOf(i) ) =>
            /\ ops'[i].pc = "returned" /\ ops'[i].err = NoError /\ ops'[i].calls = 1
            /\ ops'[i].remoteWrites = 0
            /\ versionRegistry' = versionRegistry
            /\ world' = world
      ]_vars

\* C5 witness: an upload of an in-sync file ended without a remote write
C5_Witness ==
    \E i \in Ops :
        /\ ops[i].kind = "upload" /\ ops[i].outcome = "in sync"
        /\ ops[i].remoteWrites = 0 /\ ops[i].err = NoError
        /\ localFiles[ops[i].nodeId] = remoteContent[ops[i].nodeId]
        /\ Len(localFiles[ops[i].nodeId]) = MaxLen
        /\ versionRegistry[ops[i].nodeId] # NoEntry

\* C6: a downloadFile of an existing local file whose bytes equal the remote
\* bytes ends with callback(null), has started no write of the local file,
\* leaves the file as it was and sets the node's registry entry (and no
\* other) to the descriptor's version label.
C6_DownloadUnchanged ==
    [][ \A i \in Ops :
            ( /\ ops[i].kind = "download" /\ ops[i].pc = "localCheckSum"
              /\ localFiles[ops[i].nodeId] = remoteContent[ops[i].nodeId]
              /\ StepOf(i) ) =>
            /\ ops'[i].pc = "returned" /\ ops'[i].err = NoError /\ ops'[i].calls = 1
            /\ ops'[i].localWrites = 0
            /\ world' = world
            /\ versionRegistry' = [ versionRegistry EXCEPT ![ops[i].nodeId] = ops[i].version ]
      ]_vars

\* C6 witness: such a download ended, and the registry entry differs from the
\* label the repository holds (the descriptor's label was recorded)
C6_Witness ==
    \E i \in Ops :
        /\ ops[i].kind = "download" /\ ops[i].outcome = "unchanged"
        /\ ops[i].localWrites = 0 /\ ops[i].err = NoError
        /\ localFiles[ops[i].nodeId] = remoteContent[ops[i].nodeId]
        /\ Len(localFiles[ops[i].nodeId]) = MaxLen
        /\ versionRegistry[ops[i].nodeId] \in Labels

\* C7: a downloadFile that finds no local file pipes the response to a new
\* file; the registry is untouched until the writer has finished, and in the
\* step in which it finishes the file holds exactly the remote bytes, the
\* node's entry becomes the descriptor's label and callback(null) is invoked.
C7_DownloadNewFile ==
    [][ \A i \in Ops :
            /\ ( /\ ops[i].kind = "download" /\ ops[i].pc = "readFile"
                 /\ localFiles[ops[i].nodeId] = Absent /\ StepOf(i) ) =>
                   ops'[i].pc = "pipe"
            /\ ( /\ ops[i].kind = "download"
                 /\ ops[i].pc \in {"getRemoteData", "readFile", "pipe"} ) =>
                   versionRegistry' = versionRegistry
            /\ ( ops[i].pc = "writer.end" /\ ops'[i].pc = "returned" ) =>
                   /\ localFiles'[ops[i].nodeId] = remoteContent[ops[i].nodeId]
                   /\ localFiles'[ops[i].nodeId] = ops[i].received
                   /\ versionRegistry' = [ versionRegistry EXCEPT ![ops[i].nodeId] = ops[i].version ]
                   /\ ops'[i].err = NoError /\ ops'[i].calls = 1
      ]_vars

\* C7 witness: a new file of MaxLen bytes was downloaded
C7_Witness ==
    \E i \in Ops :
        /\ ops[i].outcome = "downloaded new file" /\ ops[i].err = NoError
        /\ localFiles[ops[i].nodeId] = remoteContent[ops[i].nodeId]
        /\ Len(localFiles[ops[i].nodeId]) = MaxLen
        /\ versionRegistry[ops[i].nodeId] \in Labels

\* C8: a downloadFile of an existing local file whose bytes differ from the
\* remote bytes starts fs.writeFile; bufferWriter.buffer always holds the
\* bytes received so far, in order; the registry and the file are untouched
\* until the write succeeded, and then the file holds exactly the bytes
\* received (the remote bytes) and the node's entry is the descriptor's label.
C8_DownloadOverwrite ==
    [][ \A i \in Ops :
            /\ ( ops[i].kind = "download" /\ ops[i].pc \in {"remoteCheckSum", "localCheckSum", "writeFile"} ) =>
                   ops[i].buffer = ops[i].received
            /\ ( /\ ops[i].kind = "download" /\ ops[i].pc = "localCheckSum"
                 /\ localFiles[ops[i].nodeId] # remoteContent[ops[i].nodeId]
                 /\ StepOf(i) ) =>
                   /\ ops'[i].pc = "writeFile"
                   /\ UNCHANGED << versionRegistry, world >>
            /\ ( ops[i].pc = "writeFile" /\ StepOf(i) /\ ops'[i].err = NoError ) =>
                   /\ localFiles'[ops[i].nodeId] = ops[i].received
                   /\ ops[i].received = remoteContent[ops[i].nodeId]
                   /\ versionRegistry' = [ versionRegistry EXCEPT ![ops[i].nodeId] = ops[i].version ]
                   /\ ops'[i].pc = "returned" /\ ops'[i].calls = 1
      ]_vars

\* C8 witness: an existing file was overwritten with MaxLen remote bytes
C8_Witness ==
    \E i \in Ops :
        /\ ops[i].outcome = "downloaded" /\ ops[i].err = NoError
        /\ ops[i].localWrites = 1
        /\ localFiles[ops[i].nodeId] = remoteContent[ops[i].nodeId]
        /\ Len(localFiles[ops[i].nodeId]) = MaxLen

\* C9: on the download path a digesting error and a failure to write the
\* local file (fs.writeFile, or the writer of a new file) end the operation
\* with callback(error), and the operation has not updated the registry.
C9_DownloadErrorsSurfaced ==
    \A i \in Ops :
        ( /\ ops[i].kind = "download"
          /\ ops[i].outcome \in {"error streaming file", "error writing file",
                                 "uncaught writer error"} ) =>
            Failed(ops[i]) /\ ops[i].versionsSet = 0

\* C10: when the response of downloadFile's fetch has a status other than
\* 200, the operation ends with callback(null), has started no write of the
\* local file, and leaves the local files and the registry unchanged.
C10_DownloadStatusFailure ==
    [][ \A i \in Ops : \A st \in Statuses \ {StatusOK} :
            DownloadGetRemoteData(i, FALSE, st) =>
                /\ ops'[i].pc = "returned" /\ ops'[i].err = NoError /\ ops'[i].calls = 1
                /\ ops'[i].localWrites = 0 /\ ops'[i].versionsSet = 0
                /\ localFiles' = localFiles
                /\ versionRegistry' = versionRegistry
      ]_vars

\* C10 witness: a download ended on a non-success status
C10_Witness ==
    \E i \in Ops :
        /\ ops[i].kind = "download" /\ ops[i].outcome = "Download failed"
        /\ ops[i].pc = "returned" /\ ops[i].err = NoError
        /\ ops[i].localWrites = 0

(* helpers of C11: an upload batch of the task *)

\* the local read of the upload failed
ReadFailed(o) == o.kind = "upload" /\ o.outcome = "unable to read file"

\* a request to the repository completed with a failure for the operation
RequestFailed(o) ==
    o.outcome \in {"setContentStream notOk", "setContentStream error", "getObject error"}

\* the task called uploadFile for every file, and no call awaits any I/O
BatchOver ==
    /\ task.action = "upload"
    /\ \A n \in Nodes : \E i \in Ops :
           ops[i].kind = "upload" /\ ops[i].nodeId = n /\ ~ Pending(ops[i])

\* C11: batch resilience.  When an upload batch is over in which exactly one
\* file's local read failed (and no request to the repository failed), every
\* call has invoked its callback once; the failing file's callback carried no
\* error and it issued no remote write; each other call ended as it does
\* alone: in sync without a write when its bytes equal the remote bytes,
\* otherwise with one write after which the repository holds its bytes.
C11_BatchResilience ==
    ( /\ BatchOver
      /\ Cardinality({i \in Ops : ReadFailed(ops[i])}) = 1
      /\ \A i \in Ops : ~ RequestFailed(ops[i]) ) =>
        \A i \in Ops : ops[i].kind = "upload" =>
            /\ ops[i].calls = 1
            /\ ReadFailed(ops[i]) => ops[i].err = NoError /\ ops[i].remoteWrites = 0
            /\ ops[i].outcome = "in sync" =>
                   /\ ops[i].remoteWrites = 0
                   /\ localFiles[ops[i].nodeId] = remoteContent[ops[i].nodeId]
            /\ ops[i].remoteWrites > 0 =>
                   /\ ops[i].remoteWrites = 1
                   /\ localFiles[ops[i].nodeId] = remoteContent[ops[i].nodeId]

\* C11 is about this state: the batch is over, one read failed, the other
\* file was written to the repository
C11_Case ==
    /\ BatchOver
    /\ Cardinality({i \in Ops : ReadFailed(ops[i])}) = 1
    /\ \E i \in Ops : ops[i].remoteWrites = 1 /\ ~ RequestFailed(ops[i])

\* the part of C11 that holds: the same for batches of modern descriptors
C11_ModernBatch ==
    (\A i \in Ops : ops[i].outcome # "getLatestVersionLegacy") => C11_BatchResilience

\* C12: on the upload path (version gate passed, local file read), when the
\* remote content cannot be verified -- the fetch fails, its status is not
\* 200, or the response stream errors while it is digested -- uploadFile
\* issues the remote write with the local bytes it read, and neither calls
\* back nor changes the registry in that step.
C12_UploadWhenUnverified ==
    [][ \A i \in Ops :
            ( \/ \E err \in BOOLEAN, st \in Statuses :
                    (err \/ st # StatusOK) /\ UploadGetRemoteData(i, err, st)
              \/ ops[i].kind = "upload" /\ RemoteStreamError(i) ) =>
            /\ ops'[i].pc = "setContentStream"
            /\ ops'[i].remoteWrites = 1
            /\ ops'[i].request.data = ops[i].data
            /\ ops[i].data = localFiles[ops[i].nodeId]
            /\ ops'[i].calls = 0
            /\ versionRegistry' = versionRegistry
      ]_vars

\* C12 witness: a remote write of MaxLen local bytes is outstanding although
\* the repository holds the same bytes (the remote content was not verified)
C12_Witness ==
    \E i \in Ops :
        /\ ops[i].kind = "upload" /\ ops[i].pc = "setContentStream"
        /\ ops[i].request.data = localFiles[ops[i].nodeId]
        /\ localFiles[ops[i].nodeId] = remoteContent[ops[i].nodeId]
        /\ Len(localFiles[ops[i].nodeId]) = MaxLen

(* helpers of C13 *)

\* the setContentStream request doUpload makes for the descriptor of operation i
UploadRequestOf(i) ==
    [ objectId |-> ObjectIdOf(ops[i].nodeId), data |-> localFiles[ops[i].nodeId],
      overwriteFlag |-> TRUE, mimeType |-> MimeTypeOf(ops[i].nodeId) ]

\* the steps of an upload whose content differs, for the descriptors in D
\* (modern = TRUE, legacy = FALSE)
UploadsChanged(D) ==
    \A i \in Ops : (ops[i].kind = "upload" /\ ops[i].isModernCmis \in D) =>
        /\ ( /\ ops[i].pc = "localCheckSum"
             /\ localFiles[ops[i].nodeId] # remoteContent[ops[i].nodeId]
             /\ StepOf(i) ) =>
               /\ ops'[i].pc = "setContentStream" /\ ops'[i].remoteWrites = 1
               /\ ops'[i].request = UploadRequestOf(i)
               /\ ops[i].data = localFiles[ops[i].nodeId]
        /\ SetContentStreamDone(i, "ok") =>
               /\ remoteContent'[ops[i].nodeId] = localFiles[ops[i].nodeId]
               /\ ops'[i].pc = "getObject" /\ ops'[i].calls = 0
               /\ versionRegistry' = versionRegistry
        /\ GetObjectDone(i, "ok") =>
               /\ versionRegistry' =
                      [ versionRegistry EXCEPT ![ops[i].nodeId] = remoteVersion[ops[i].nodeId] ]
               /\ ops'[i].pc = "returned" /\ ops'[i].err = NoError /\ ops'[i].calls = 1

\* C13: when the registry version matches and the local bytes differ from the
\* remote bytes, uploadFile issues setContentStream with the bytes read,
\* overwrite enabled and the descriptor's object id and mime type; when the
\* write succeeded it fetches the version label, and when that fetch
\* succeeded it sets the node's entry to the label the repository holds after
\* the write (whatever the descriptor's label was), and then calls back.
C13_UploadChanged == [][ UploadsChanged(BOOLEAN) ]_vars

\* the part of C13 that holds: the same for modern descriptors
C13_ModernUploadChanged == [][ UploadsChanged({TRUE}) ]_vars

\* C13 is about this state: the repository holds the uploaded bytes at a new
\* version and the operation is over
C13_Case ==
    \E i \in Ops :
        /\ ops[i].kind = "upload" /\ ops[i].remoteWrites = 1 /\ ~ Pending(ops[i])
        /\ ops[i].outcome \in {"uploaded", "getLatestVersionLegacy"}
        /\ remoteContent[ops[i].nodeId] = localFiles[ops[i].nodeId]

(* helpers of C14 *)

\* when the version fetch of an upload completes with a result in R, the
\* callback is invoked once without error and the registry stays as it was
RefreshFailureTolerated(R) ==
    \A i \in Ops : \A r \in R :
        GetObjectDone(i, r) =>
            /\ ops[i].kind = "upload" /\ ops[i].remoteWrites = 1
            /\ ops'[i].pc = "returned" /\ ops'[i].err = NoError /\ ops'[i].calls = 1
            /\ versionRegistry' = versionRegistry

\* C14: if the remote write of an upload succeeded and the version fetch
\* completes with a failure (notOk or error), the callback is invoked without
\* an error and the registry keeps its previous entry for the node.
C14_RefreshFailureTolerated == [][ RefreshFailureTolerated({"notOk", "error"}) ]_vars

\* the part of C14 that holds: the same for a fetch that completes with notOk
C14_RefreshNotOkTolerated == [][ RefreshFailureTolerated({"notOk"}) ]_vars

\* C14 is about this state: the write succeeded and the version fetch failed
C14_Case ==
    \E i \in Ops :
        /\ ops[i].outcome \in {"Could not refresh file version", "getObject error"}
        /\ remoteContent[ops[i].nodeId] = localFiles[ops[i].nodeId]
        /\ versionRegistry[ops[i].nodeId] # remoteVersion[ops[i].nodeId]

(* helpers of C15 *)

\* the outcomes of skipped operations
Skips == {"out of sync", "unable to read file", "in sync", "Download failed"}

\* operation i ends in this step skipped, with an error, or without callback
EndsSkippedOrFailed(i) ==
    /\ Pending(ops[i]) \/ ops[i].pc = "idle"
    /\ StepOf(i)
    /\ \/ ops'[i].outcome \in Skips
       \/ Failed(ops'[i])
       \/ ops'[i].pc = "lost"

\* C15: registry entries.  An entry is created or changed only in the step in
\* which a download or an upload of its node completes successfully, and it
\* becomes a version label; a step in which an operation is skipped or fails
\* changes no entry; no step deletes an entry.
C15_RegistryEntries ==
    [][ /\ \A n \in Nodes : versionRegistry'[n] # versionRegistry[n] =>
               /\ versionRegistry'[n] \in Labels
               /\ \E i \in Ops :
                      /\ ops[i].nodeId = n
                      /\ DownloadSucceeds(i) \/ UploadRefreshed(i)
                      /\ ops'[i].versionsSet = 1
        /\ \A i \in Ops : EndsSkippedOrFailed(i) => versionRegistry' = versionRegistry
        /\ \A n \in Nodes : versionRegistry[n] # NoEntry => versionRegistry'[n] # NoEntry
      ]_vars

\* C15 witness: a failed download of a node without entry has left it without
\* entry, while the other node has one
C15_Witness ==
    \E i \in Ops :
        /\ ops[i].kind = "download" /\ Failed(ops[i]) /\ ops[i].localWrites = 1
        /\ versionRegistry[ops[i].nodeId] = NoEntry
        /\ \E n \in Nodes : versionRegistry[n] \in Labels

(* helpers of C16 *)

\* the entry of its node that operation i has produced, if it set one: the
\* label of the repository (a task's descriptors are read from the repository
\* when it starts; an upload fetches the label after its write)
EntryProduced(i) ==
    ops[i].versionsSet = 1 =>
        hasVersion(versionRegistry, ops[i].nodeId, remoteVersion[ops[i].nodeId])

\* C16: no lost registry updates.  With the calls of a task in flight
\* together on distinct nodes, every step of an operation leaves the entries
\* of all other nodes as they were and changes the entry of its own node only
\* by its one setVersion; and an entry an operation has produced is still in
\* the registry whatever the other operations did since.
C16_NoLostUpdate ==
    [][ /\ \A i, j \in Ops : (i # j /\ InFlight(ops[i]) /\ InFlight(ops[j])) =>
               ops[i].nodeId # ops[j].nodeId
        /\ \A i \in Ops : StepOf(i) =>
               /\ \A n \in Nodes \ {ops'[i].nodeId} : versionRegistry'[n] = versionRegistry[n]
               /\ versionRegistry'[ops'[i].nodeId] # versionRegistry[ops'[i].nodeId] =>
                      /\ ops[i].versionsSet = 0 /\ ops'[i].versionsSet = 1
                      /\ ops'[i].pc = "returned"
        /\ \A i \in Ops : EntryProduced(i)'
      ]_vars

\* C16 witness: two operations were in flight together; the one called last
\* has ended and produced its entry, the other has its write or its version
\* fetch outstanding and its node's entry is not yet the repository's label
C16_Witness ==
    \E i, j \in Ops :
        /\ i < j
        /\ ops[j].pc = "returned" /\ ops[j].versionsSet = 1
        /\ ops[i].pc \in {"getObject", "writeFile", "writer.end"}
        /\ ops[i].nodeId # ops[j].nodeId
        /\ hasVersion(versionRegistry, ops[j].nodeId, remoteVersion[ops[j].nodeId])
        /\ versionRegistry[ops[i].nodeId] # remoteVersion[ops[i].nodeId]

C17_AliasCase ==
    /\ task.arg = "u"
    /\ \E i \in Ops : ops[i].kind = "upload" /\ ops[i].pc = "setContentStream"

(* helpers of C18 *)

\* compare has computed both digests of operation i: the whole response was
\* digested into remoteCheckSum, and the local data are at hand
Compared(i) ==
    /\ ops[i].pc = "localCheckSum"
    /\ ops[i].body = << >> /\ ops[i].received = remoteContent[ops[i].nodeId]
    /\ ops[i].remoteCheckSum = CheckSumOf(ops[i].received)
    /\ ops[i].data = localFiles[ops[i].nodeId]

\* the ordering of the steps of one file operation; an upload may issue its
\* remote write without comparison from the positions in Fallback
Ordered(Fallback) ==
    \A i \in Ops :
        \* the fetch has completed with status 200 when digesting starts
        /\ (ops[i].pc # "remoteCheckSum" /\ ops'[i].pc = "remoteCheckSum") =>
               /\ \/ ops[i].kind = "upload" /\ UploadGetRemoteData(i, FALSE, StatusOK)
                  \/ ops[i].kind = "download" /\ ops[i].pc = "readFile"
                       /\ ops[i].body = remoteContent[ops[i].nodeId]
               /\ ops'[i].received = << >> /\ ops'[i].hash = HashInit
        \* the local digest is taken after the remote one
        /\ (ops[i].pc # "localCheckSum" /\ ops'[i].pc = "localCheckSum") =>
               ops[i].pc = "remoteCheckSum" /\ Compared(i)'
        \* the remote write of an upload
        /\ (ops[i].remoteWrites = 0 /\ ops'[i].remoteWrites > 0) =>
               \/ Compared(i) /\ CheckSumOf(ops[i].data) # ops[i].remoteCheckSum
               \/ RemoteStreamError(i)
               \/ ops[i].pc \in Fallback
        \* the write of an existing local file by a download
        /\ ( /\ ops[i].kind = "download" /\ localFiles[ops[i].nodeId] # Absent
             /\ ops[i].localWrites = 0 /\ ops'[i].localWrites > 0 ) =>
               Compared(i) /\ CheckSumOf(ops[i].data) # ops[i].remoteCheckSum

\* C18 as stated: the fetch completes before digesting starts, and uploadFile
\* issues the remote write, and downloadFile writes an existing local file,
\* only when both digests have been computed or the comparison has failed.
C18_Ordering == [][ Ordered({}) ]_vars

\* C18 amended: the same, except that uploadFile also issues the remote write
\* at once, with no digest computed, when the fetch failed or its status was
\* not 200.
C18_OrderingAmended == [][ Ordered({"getRemoteData"}) ]_vars

\* C18 witness: a download of an existing file has digested MaxLen remote
\* bytes and the local data, found them different, and only now writes
C18_Witness ==
    \E i \in Ops :
        /\ ops[i].kind = "download" /\ ops[i].pc = "writeFile" /\ ops[i].localWrites = 1
        /\ Len(ops[i].received) = MaxLen /\ ops[i].received = remoteContent[ops[i].nodeId]
        /\ ops[i].remoteCheckSum = CheckSumOf(ops[i].received)
        /\ ops[i].remoteCheckSum # CheckSumOf(localFiles[ops[i].nodeId])

(* helpers of C19 *)

\* operation i has ended: skipped, successfully, with an error, or lost
Ended(o) == o.pc \in {"returned", "lost"}

\* the caller starts a call in slot i
NewCall(i) ==
    /\ ops'[i].kind # "none"
    /\ ops'[i].remoteWrites = 0 /\ ops'[i].localWrites = 0 /\ ops'[i].versionsSet = 0
    /\ ops'[i].pc \in {"readFile", "getRemoteData", "returned"}
    /\ ops'[i].calls = IF ops'[i].pc = "returned" THEN 1 ELSE 0

C19_FailedWriteCase ==
    \E i \in Ops :
        /\ ops[i].outcome = "setContentStream notOk" /\ ops[i].remoteWrites = 1
        /\ ops[i].pc = "lost"

(* helpers of C20 *)

\* doUpload has called getLatestVersion for the descriptor of the operation
\* (the remote write succeeded)
GetLatestVersionCalled(o) ==
    /\ o.kind = "upload" /\ o.remoteWrites > 0
    /\ o.pc # "setContentStream"
    /\ o.outcome \notin {"setContentStream notOk", "setContentStream error"}

\* C20: getLatestVersion calls back.  Once getLatestVersion was called for a
\* descriptor of either dialect and no metadata request is outstanding, its
\* callback has been invoked: with the new label (the upload ended as
\* uploaded, the registry was set) or with an error (the upload ended with
\* "Could not refresh file version").
C20_GetLatestVersionCallsBack ==
    \A i \in Ops :
        (GetLatestVersionCalled(ops[i]) /\ ops[i].pc # "getObject") =>
            /\ ops[i].outcome \in {"uploaded", "Could not refresh file version"}
            /\ ops[i].outcome = "uploaded" => ops[i].versionsSet = 1
            /\ ops[i].outcome = "Could not refresh file version" => ops[i].versionsSet = 0

\* C20 is about this state: getLatestVersion was called and nothing is
\* outstanding
C20_Case ==
    \E i \in Ops :
        /\ GetLatestVersionCalled(ops[i]) /\ ops[i].pc # "getObject"
        /\ remoteVersion[ops[i].nodeId] > 1

\* the part of C20 that holds: the same for a modern descriptor whose
\* metadata request completes with ok or notOk
C20_ModernCallsBack ==
    (\A i \in Ops : ops[i].outcome \notin {"getLatestVersionLegacy", "getObject error"}) =>
        C20_GetLatestVersionCallsBack

\* C21: the completion callback of one uploadFile or downloadFile call is
\* invoked at most once, whatever the order of the 'end' and 'error' events
\* of the streams and of the completions of the requests.
C21_CallbackAtMostOnce ==
    \A i \in Ops : ops[i].calls <= 1

\* C21 is about this state: the request of a download emitted 'error' after
\* its response had arrived, and the operation has ended
C21_Case ==
    \E i \in Ops :
        /\ ops[i].kind = "download" /\ ops[i].pc = "returned"
        /\ ops[i].calls > 1

(* helpers of C22 *)

\* the registry holds a label of node n that the repository has left behind
Stale(n) == versionRegistry[n] # NoEntry /\ versionRegistry[n] < remoteVersion[n]

\* an operation on node n is in flight
Busy(n) == \E i \in Ops : InFlight(ops[i]) /\ ops[i].nodeId = n

\* C22: after an upload of node n whose remote write succeeded and whose
\* version fetch failed, the registry holds the pre-write label and the
\* repository's label has advanced; from then on an uploadFile of n called
\* with the repository's descriptor is refused as out of sync, without remote
\* write and without changing anything; this lasts until a downloadFile of n
\* is called, and that download either ends successfully, recording the
\* repository's label, or leaves the registry behind as it was.
C22_StaleUntilDownload ==
    [][ \A n \in Nodes :
            /\ \A i \in Ops : (GetObjectDone(i, "notOk") /\ ops[i].nodeId = n) =>
                   /\ versionRegistry'[n] = ops[i].version
                   /\ remoteVersion'[n] = ops[i].version + 1
                   /\ Stale(n)' /\ ~ Busy(n)'
            /\ \A i \in Ops, m \in BOOLEAN :
                   (Stale(n) /\ ~ Busy(n) /\ UploadFile(i, n, remoteVersion[n], m)) =>
                       /\ ops'[i].outcome = "out of sync" /\ ops'[i].pc = "returned"
                       /\ ops'[i].remoteWrites = 0 /\ ops'[i].err = NoError
                       /\ UNCHANGED << versionRegistry, world >>
            /\ (Stale(n) /\ ~ Busy(n)) =>
                   \/ Stale(n)' /\ ~ Busy(n)'
                   \/ \E i \in Ops :
                          /\ ops'[i].kind = "download" /\ ops'[i].nodeId = n
                          /\ ops'[i].pc = "getRemoteData" /\ Stale(n)'
            /\ \A i \in Ops :
                   ( /\ Stale(n) /\ ops[i].kind = "download" /\ ops[i].nodeId = n
                     /\ Pending(ops[i]) /\ StepOf(i) ) =>
                       \/ Stale(n)' /\ versionRegistry' = versionRegistry
                       \/ /\ DownloadSucceeds(i)
                          /\ hasVersion(versionRegistry', n, remoteVersion[n])
      ]_vars

\* C22 witness: an upload with the repository's descriptor was refused as out
\* of sync because the registry holds the label from before an earlier write
C22_Witness ==
    \E i \in Ops :
        /\ ops[i].kind = "upload" /\ ops[i].outcome = "out of sync"
        /\ ops[i].remoteWrites = 0
        /\ Stale(ops[i].nodeId)
        /\ remoteContent[ops[i].nodeId] = localFiles[ops[i].nodeId]

\* the end of the case of C22: a download has recorded the repository's label
\* after the write
C22_Recovered ==
    \E i \in Ops :
        /\ ops[i].kind = "download" /\ ops[i].pc = "returned" /\ ops[i].versionsSet = 1
        /\ remoteVersion[ops[i].nodeId] > 1
        /\ hasVersion(versionRegistry, ops[i].nodeId, remoteVersion[ops[i].nodeId])

====
